---------------------------- MODULE Spec2Model ----------------------------
(***************************************************************************)
(* A model of cynic-codegen (src/cynic-codegen/src/lib.rs): the query DSL  *)
(* generator.  query_dsl_from_schema reads a schema file, parses it,       *)
(* indexes its object types (data_from_schema), and emits one marker       *)
(* struct and one accessor function per field (dsl_for_object,             *)
(* select_function_for_field), the field's type reference being resolved   *)
(* by field_type_and_scalar_call.                                          *)
(*                                                                         *)
(* A TokenStream is a sequence of tokens (strings).  An Option<T> is a     *)
(* sequence of at most one element.  A field's wire name is a sequence of  *)
(* characters, because its snake_case conversion works on characters.      *)
(***************************************************************************)
EXTENDS Integers, Sequences, FiniteSets, TLC

VARIABLES
    \* ---- the resolver applied to one type reference (SpecResolver)
    gql_type,        \* the argument of field_type_and_scalar_call
    resolved,        \* Option of its result <<field_type, scalar_call>>
    \* ---- dsl_for_object applied to one object type (SpecObject)
    object,          \* the argument of dsl_for_object
    unit,            \* Option of the emitted unit
    \* ---- query_dsl_from_schema, run twice on the same file (Spec)
    file,            \* the schema file: what reading and parsing it yield
    pc,              \* position inside query_dsl_from_schema
    calls,           \* the calls the current run has made so far, in order
    schema,          \* Option of the text read_to_string returned
    definitions,     \* document.definitions not yet consumed by the for loop
    scanned,         \* document.definitions already consumed by the for loop
    types,           \* the HashMap under construction / SchemaData.types
    result,          \* Option of the Result the current run returned
    run,             \* 1 for the first run, 2 for the second
    first_result     \* Option of the Result the first run returned

vars == <<gql_type, resolved, object, unit, file, pc, calls, schema,
          definitions, scanned, types, result, run, first_result>>

resolver_vars == <<gql_type, resolved>>
object_vars   == <<object, unit>>
pipeline_vars == <<file, pc, calls, schema, definitions, scanned, types,
                   result, run, first_result>>

-----------------------------------------------------------------------------
(* Bounds of the model.                                                    *)

\* Wrappers (NonNull / List) around a leaf name, for the resolver.
MaxDepth == 3
\* Fields of the object type handed to dsl_for_object.
MaxFields == 2
\* Definitions in a parsed schema document.
MaxDefs == 2

-----------------------------------------------------------------------------
(* Option<T> and TokenStream.                                              *)

None == <<>>
Some(x) == <<x>>
IsSome(opt) == opt # None
Unwrap(opt) == opt[1]

-----------------------------------------------------------------------------
(* graphql_parser::schema::Type.                                           *)

NamedType(name)    == [tag |-> "NamedType", name |-> name]
ListType(inner)    == [tag |-> "ListType", inner |-> inner]
NonNullType(inner) == [tag |-> "NonNullType", inner |-> inner]

\* The leaf names the model resolves: the four built-in scalars, names that
\* differ from them only in case, ID, and object or unknown type names.
TypeNames ==
    {"String", "Int", "Float", "Boolean", "ID", "string", "int",
     "Author", "Post", "MyCustomType"}

\* The type references of exactly d wrappers, as the parser builds them: a
\* NonNull never wraps a NonNull directly (the grammar has no "T!!").
RECURSIVE TypeRefsOfDepth(_, _)
TypeRefsOfDepth(d, names) ==
    IF d = 0
    THEN {NamedType(n) : n \in names}
    ELSE LET inner == TypeRefsOfDepth(d - 1, names)
         IN  {ListType(t) : t \in inner}
             \cup {NonNullType(t) : t \in {u \in inner : u.tag # "NonNullType"}}

TypeRefsUpTo(d, names) == UNION {TypeRefsOfDepth(k, names) : k \in 0..d}

-----------------------------------------------------------------------------
(* field_type_and_scalar_call.                                             *)

\* A faulty variant of NamedTypeArm: ID resolved as a string scalar, the
\* handling the TODO of the fifth branch asks for.
NamedTypeArmWithID(name) ==
    IF name \in {"String", "ID"} THEN <<"String", Some("string")>>
    ELSE IF name = "Int" THEN <<"i64", Some("integer")>>
    ELSE IF name = "Float" THEN <<"f64", Some("float")>>
    ELSE IF name = "Boolean" THEN <<"bool", Some("boolean")>>
    ELSE <<name, None>>

\* A faulty variant of NamedTypeArm: a name that is no built-in scalar is
\* taken for a custom scalar and read as a string.
NamedTypeArmCustomScalar(name) ==
    IF name = "String" THEN <<"String", Some("string")>>
    ELSE IF name = "Int" THEN <<"i64", Some("integer")>>
    ELSE IF name = "Float" THEN <<"f64", Some("float")>>
    ELSE IF name = "Boolean" THEN <<"bool", Some("boolean")>>
    ELSE <<name, Some("string")>>

\* The if-chain of the NamedType arm: (field_type, scalar_func).  Its fifth
\* test repeats the first, as in the source.
NamedTypeArm(name) ==
    IF name = "String" THEN <<"String", Some("string")>>
    ELSE IF name = "Int" THEN <<"i64", Some("integer")>>
    ELSE IF name = "Float" THEN <<"f64", Some("float")>>
    ELSE IF name = "Boolean" THEN <<"bool", Some("boolean")>>
    ELSE IF name = "String" THEN <<"String", Some("string")>>
    ELSE <<name, None>>

\* scalar_func.map(|f| quote! { #f() })
ScalarFuncCall(scalar_func) ==
    IF IsSome(scalar_func)
    THEN Some(<<Unwrap(scalar_func), "(", ")">>)
    ELSE None

\* scalar_call.map(|expr| quote! { <adapter>(#expr) })
AdapterCall(adapter, scalar_call) ==
    IF IsSome(scalar_call)
    THEN Some(<<adapter, "(">> \o Unwrap(scalar_call) \o <<")">>)
    ELSE None

\* A faulty variant of NonNullTypeArm: the two wrappers' arms swapped, a
\* non-null type resolved as a list.
NonNullTypeArmAsList(inner) ==
    << <<"Vec", "<">> \o inner[1] \o <<">">>,
       AdapterCall("::cynic::selection_set::vec", inner[2]) >>

\* The NonNullType arm, given the inner type's resolution.
NonNullTypeArm(inner) ==
    << <<"Option", "<">> \o inner[1] \o <<">">>,
       AdapterCall("::cynic::selection_set::option", inner[2]) >>

\* The ListType arm, given the inner type's resolution.
ListTypeArm(inner) ==
    << <<"Vec", "<">> \o inner[1] \o <<">">>,
       AdapterCall("::cynic::selection_set::vec", inner[2]) >>

RECURSIVE field_type_and_scalar_call(_)
field_type_and_scalar_call(t) ==
    CASE t.tag = "NonNullType" ->
           NonNullTypeArm(field_type_and_scalar_call(t.inner))
      [] t.tag = "ListType" ->
           ListTypeArm(field_type_and_scalar_call(t.inner))
      [] t.tag = "NamedType" ->
           LET arm == NamedTypeArm(t.name)
           IN  << <<arm[1]>>, ScalarFuncCall(arm[2]) >>

-----------------------------------------------------------------------------
(* Inflector's to_snake_case, which names the accessor (line 100).         *)

LowerLetters ==
    <<"a", "b", "c", "d", "e", "f", "g", "h", "i", "j", "k", "l", "m",
      "n", "o", "p", "q", "r", "s", "t", "u", "v", "w", "x", "y", "z">>
UpperLetters ==
    <<"A", "B", "C", "D", "E", "F", "G", "H", "I", "J", "K", "L", "M",
      "N", "O", "P", "Q", "R", "S", "T", "U", "V", "W", "X", "Y", "Z">>
DigitChars == {"0", "1", "2", "3", "4", "5", "6", "7", "8", "9"}

IsLowercase(c) == \E i \in DOMAIN LowerLetters : LowerLetters[i] = c
IsUppercase(c) == \E i \in DOMAIN UpperLetters : UpperLetters[i] = c
IsAlphanumeric(c) == IsLowercase(c) \/ IsUppercase(c) \/ c \in DigitChars
ToAsciiLowercase(c) ==
    IF IsUppercase(c)
    THEN LowerLetters[CHOOSE i \in DOMAIN UpperLetters : UpperLetters[i] = c]
    ELSE c

\* The length of s without its trailing non-alphanumeric characters.
RECURSIVE TrimRightLen(_, _)
TrimRightLen(s, n) ==
    IF n = 0 \/ IsAlphanumeric(s[n]) THEN n ELSE TrimRightLen(s, n - 1)

\* chars().nth(i).unwrap_or('A').is_lowercase(), with 1-based positions.
NthIsLowercase(s, i) == i \in DOMAIN s /\ IsLowercase(s[i])

\* The character loop: a separator is written once, between words; an upper
\* case letter next to a lower case one starts a word.
RECURSIVE SnakeLoop(_, _, _, _, _)
SnakeLoop(s, n, i, first_character, acc) ==
    IF i > n THEN acc
    ELSE IF ~IsAlphanumeric(s[i])
    THEN IF ~first_character
         THEN SnakeLoop(s, n, i + 1, TRUE, Append(acc, "_"))
         ELSE SnakeLoop(s, n, i + 1, first_character, acc)
    ELSE IF /\ ~first_character
            /\ IsUppercase(s[i])
            /\ (NthIsLowercase(s, i + 1) \/ NthIsLowercase(s, i - 1))
    THEN SnakeLoop(s, n, i + 1, FALSE,
                   acc \o <<"_", ToAsciiLowercase(s[i])>>)
    ELSE SnakeLoop(s, n, i + 1, FALSE, Append(acc, ToAsciiLowercase(s[i])))

to_snake_case(s) == SnakeLoop(s, TrimRightLen(s, Len(s)), 1, TRUE, <<>>)

-----------------------------------------------------------------------------
(* select_function_for_field and dsl_for_object.                           *)

\* ::cynic::selection_set::SelectionSet< ...generic arguments... >; the last
\* argument is the type lock, the one before it the result type.
SelectionSet(generic_args) ==
    [path |-> "::cynic::selection_set::SelectionSet", args |-> generic_args]

\* The scalar branch: a function without parameters.
ScalarFunction(rust_field_name, query_field_name, field_type, scalar_call, type_lock) ==
    [ name      |-> rust_field_name,
      generics  |-> <<>>,
      params    |-> <<>>,
      returns   |-> SelectionSet(<< <<"'static">>, field_type, <<type_lock>> >>),
      wire      |-> query_field_name,
      selection |-> scalar_call ]

\* The object branch: a generic function of one parameter, fields.
ObjectFunction(rust_field_name, query_field_name, field_type, type_lock) ==
    [ name      |-> rust_field_name,
      generics  |-> <<"'a", "T">>,
      params    |-> << [ name |-> "fields",
                         type |-> SelectionSet(<< <<"'a">>, <<"T">>,
                                                  field_type >>) ] >>,
      returns   |-> SelectionSet(<< <<"T">>, <<type_lock>> >>),
      wire      |-> query_field_name,
      selection |-> <<"fields">> ]

\* A faulty variant of select_function_for_field: the converted name is used
\* for the string literal too.
select_function_for_field_snake_literal(field, type_lock) ==
    LET rust_field_name == to_snake_case(field.name)
        resolution      == field_type_and_scalar_call(field.field_type)
    IN  IF IsSome(resolution[2])
        THEN ScalarFunction(rust_field_name, rust_field_name, resolution[1],
                            Unwrap(resolution[2]), type_lock)
        ELSE ObjectFunction(rust_field_name, rust_field_name, resolution[1],
                            type_lock)

select_function_for_field(field, type_lock) ==
    LET query_field_name == field.name
        rust_field_name  == to_snake_case(field.name)
        resolution       == field_type_and_scalar_call(field.field_type)
        field_type       == resolution[1]
        scalar_call      == resolution[2]
    IN  IF IsSome(scalar_call)
        THEN ScalarFunction(rust_field_name, query_field_name, field_type,
                            Unwrap(scalar_call), type_lock)
        ELSE ObjectFunction(rust_field_name, query_field_name, field_type,
                            type_lock)

\* A faulty variant of dsl_for_object: the fields walked from the last one.
dsl_for_object_reversed(o) ==
    [ struct_name |-> o.name,
      functions   |-> [i \in 1..Len(o.fields) |->
                         select_function_for_field(
                             o.fields[Len(o.fields) + 1 - i], o.name)] ]

\* pub struct #struct_name; impl #struct_name { #(#function_tokens)* }
dsl_for_object(o) ==
    [ struct_name |-> o.name,
      functions   |-> [i \in 1..Len(o.fields) |->
                         select_function_for_field(o.fields[i], o.name)] ]

-----------------------------------------------------------------------------
(* data_from_schema and the HashMap it fills.                              *)

EmptyMap == <<>>
Keys(m) == DOMAIN m

\* HashMap::insert: the value under an existing key is replaced.
HashMapInsert(m, k, v) ==
    [x \in Keys(m) \cup {k} |-> IF x = k THEN v ELSE m[x]]

\* HashMap::iter visits every entry once, in an order that depends on the
\* map's RandomState, which is seeded anew in every process: any order.
IterationOrders(m) ==
    {order \in [1..Cardinality(Keys(m)) -> Keys(m)] :
        \A i, j \in DOMAIN order : i # j => order[i] # order[j]}

\* A faulty variant of IndexDefinition: the first definition of a name is
\* kept (entry().or_insert).
IndexDefinitionFirstWins(m, definition) ==
    IF definition.kind = "Object" /\ definition.name \notin Keys(m)
    THEN HashMapInsert(m, definition.name,
                       [name |-> definition.name, fields |-> definition.fields])
    ELSE m

\* A faulty variant of IndexDefinition: every named type definition is
\* indexed, whatever its kind.
IndexDefinitionAnyType(m, definition) ==
    IF definition.kind \in {"Object", "Scalar", "Interface", "Union", "Enum",
                            "InputObject"}
    THEN HashMapInsert(m, definition.name,
                       [name |-> definition.name, fields |-> definition.fields])
    ELSE m

\* The body of the for loop: the match on one definition.
IndexDefinition(m, definition) ==
    IF definition.kind = "Object"
    THEN HashMapInsert(m, definition.name,
                       [name |-> definition.name, fields |-> definition.fields])
    ELSE m

-----------------------------------------------------------------------------
(* Result<TokenStream, Error>.                                             *)

ErrorKinds == {"IoError", "ParseError", "MissingQueryDefinition"}
Ok(tokens) == [tag |-> "Ok", value |-> tokens]
Err(kind, message) ==
    [tag |-> "Err", value |-> [kind |-> kind, message |-> message]]

-----------------------------------------------------------------------------
(* The inputs.                                                             *)

\* Wire names of fields, as characters.  Each converts to a non-empty
\* identifier: format_ident! (an external crate) is taken to succeed, and a
\* name such as "_", whose conversion is empty, is outside the model.
Chars_someField  == <<"s", "o", "m", "e", "F", "i", "e", "l", "d">>
Chars_some_field == <<"s", "o", "m", "e", "_", "f", "i", "e", "l", "d">>
Chars_postID     == <<"p", "o", "s", "t", "I", "D">>
Chars_author     == <<"a", "u", "t", "h", "o", "r">>
Chars_title      == <<"t", "i", "t", "l", "e">>
Chars_custom     == <<"c", "u", "s", "t", "o", "m">>

Field(name, field_type) == [name |-> name, field_type |-> field_type]

\* All sequences over S of length at most n.
SeqsUpTo(S, n) == UNION {[1..k -> S] : k \in 0..n}

\* The object types handed to dsl_for_object.
ObjectFieldNames == {Chars_someField, Chars_some_field, Chars_postID, Chars_author}
ObjectFieldTypes == TypeRefsUpTo(1, {"Int", "Author"})
ObjectFields == {Field(n, t) : n \in ObjectFieldNames, t \in ObjectFieldTypes}
ObjectTypes ==
    {[name |-> n, fields |-> fs] :
        n \in {"Post", "Author"}, fs \in SeqsUpTo(ObjectFields, MaxFields)}

\* The definitions of a schema document: object types of no field or of one
\* field, and one definition of every other kind the parser builds.
OtherKinds ==
    {"SchemaDefinition", "Scalar", "Interface", "Union", "Enum",
     "InputObject", "TypeExtension", "DirectiveDefinition"}
DocFields ==
    {Field(Chars_title, NamedType("String")),
     Field(Chars_author, NamedType("Author")),
     Field(Chars_custom, NamedType("MyCustomType"))}
DocDefinitions ==
    {[kind |-> "Object", name |-> n, fields |-> fs] :
        n \in {"Post", "Author"}, fs \in {<<>>} \cup {<<f>> : f \in DocFields}}
    \cup {[kind |-> k, name |-> "Author", fields |-> <<>>] : k \in OtherKinds}
Documents == SeqsUpTo(DocDefinitions, MaxDefs)

\* A schema file: reading it fails, or yields a text; parsing the text
\* fails, or yields a document.
IoErrors == {"No such file or directory", "Permission denied"}
ParseErrors == {"schema parse error"}
Texts ==
    {[parse_error |-> Some(e), document |-> <<>>] : e \in ParseErrors}
    \cup {[parse_error |-> None, document |-> d] : d \in Documents}
UnreadText == [parse_error |-> None, document |-> <<>>]
Files ==
    {[io_error |-> Some(e), text |-> UnreadText] : e \in IoErrors}
    \cup {[io_error |-> None, text |-> t] : t \in Texts}

-----------------------------------------------------------------------------
(* field_type_and_scalar_call applied to one type reference.               *)

ResolverIdle ==
    /\ gql_type = NamedType("String")
    /\ resolved = None

ResolverInit ==
    /\ gql_type \in TypeRefsUpTo(MaxDepth, TypeNames)
    /\ resolved = None

Resolve ==
    /\ resolved = None
    /\ resolved' = Some(field_type_and_scalar_call(gql_type))
    /\ UNCHANGED <<gql_type, object_vars, pipeline_vars>>

-----------------------------------------------------------------------------
(* dsl_for_object applied to one object type.                              *)

ObjectIdle ==
    /\ object = [name |-> "Post", fields |-> <<>>]
    /\ unit = None

ObjectInit ==
    /\ object \in ObjectTypes
    /\ unit = None

EmitObject ==
    /\ unit = None
    /\ unit' = Some(dsl_for_object(object))
    /\ UNCHANGED <<object, resolver_vars, pipeline_vars>>

-----------------------------------------------------------------------------
(* query_dsl_from_schema, run on a schema file and then run again on it.   *)

PipelineIdle ==
    /\ file = [io_error |-> None, text |-> UnreadText]
    /\ pc = "idle"
    /\ calls = <<>>
    /\ schema = None
    /\ definitions = <<>>
    /\ scanned = <<>>
    /\ types = EmptyMap
    /\ result = None
    /\ run = 1
    /\ first_result = None

PipelineInit ==
    /\ file \in Files
    /\ pc = "read"
    /\ calls = <<>>
    /\ schema = None
    /\ definitions = <<>>
    /\ scanned = <<>>
    /\ types = EmptyMap
    /\ result = None
    /\ run = 1
    /\ first_result = None

\* let schema = std::fs::read_to_string(&input.schema_filename)?;
ReadSchema ==
    /\ pc = "read"
    /\ calls' = Append(calls, "read_to_string")
    /\ IF IsSome(file.io_error)
       THEN /\ result' = Some(Err("IoError", Unwrap(file.io_error)))
            /\ pc' = "done"
            /\ UNCHANGED schema
       ELSE /\ schema' = Some(file.text)
            /\ pc' = "parse"
            /\ UNCHANGED result
    /\ UNCHANGED <<file, definitions, scanned, types, run, first_result>>
    /\ UNCHANGED <<resolver_vars, object_vars>>

\* A faulty variant of ParseSchema: a document the parser rejects is taken
\* as an empty one (unwrap_or_default in place of ?).
ParseSchemaLenient ==
    /\ pc = "parse"
    /\ calls' = calls \o <<"parse_schema", "data_from_schema">>
    /\ definitions' = Unwrap(schema).document
    /\ scanned' = <<>>
    /\ types' = EmptyMap
    /\ pc' = "scan"
    /\ UNCHANGED <<file, schema, result, run, first_result>>
    /\ UNCHANGED <<resolver_vars, object_vars>>

\* data_from_schema(graphql_parser::schema::parse_schema(&schema)?): the
\* parse, and on success the entry into data_from_schema.
ParseSchema ==
    /\ pc = "parse"
    /\ IF IsSome(Unwrap(schema).parse_error)
       THEN /\ calls' = Append(calls, "parse_schema")
            /\ result' = Some(Err("ParseError", Unwrap(Unwrap(schema).parse_error)))
            /\ pc' = "done"
            /\ UNCHANGED <<definitions, scanned, types>>
       ELSE /\ calls' = calls \o <<"parse_schema", "data_from_schema">>
            /\ definitions' = Unwrap(schema).document
            /\ scanned' = <<>>
            /\ types' = EmptyMap
            /\ pc' = "scan"
            /\ UNCHANGED result
    /\ UNCHANGED <<file, schema, run, first_result>>
    /\ UNCHANGED <<resolver_vars, object_vars>>

\* One iteration of for definition in document.definitions.
ScanDefinition ==
    /\ pc = "scan"
    /\ definitions # <<>>
    /\ types' = IndexDefinition(types, Head(definitions))
    /\ scanned' = Append(scanned, Head(definitions))
    /\ definitions' = Tail(definitions)
    /\ UNCHANGED <<file, pc, calls, schema, result, run, first_result>>
    /\ UNCHANGED <<resolver_vars, object_vars>>

\* The loop is over: SchemaData { types } is returned.
ReturnSchemaData ==
    /\ pc = "scan"
    /\ definitions = <<>>
    /\ pc' = "emit"
    /\ UNCHANGED <<file, calls, schema, definitions, scanned, types, result,
                   run, first_result>>
    /\ UNCHANGED <<resolver_vars, object_vars>>

\* schema_data.types.iter().map(|(_, v)| dsl_for_object(v)).collect(), and
\* Ok(quote! { #( #objects )* }).
EmitObjects ==
    /\ pc = "emit"
    /\ \E order \in IterationOrders(types) :
          /\ result' = Some(Ok([i \in DOMAIN order |->
                                   dsl_for_object(types[order[i]])]))
          /\ calls' = calls \o [i \in DOMAIN order |-> "dsl_for_object"]
    /\ pc' = "done"
    /\ UNCHANGED <<file, schema, definitions, scanned, types, run,
                   first_result>>
    /\ UNCHANGED <<resolver_vars, object_vars>>

\* The generator is run a second time on the same file, in a new process.
RunAgain ==
    /\ pc = "done"
    /\ run = 1
    /\ first_result' = result
    /\ run' = 2
    /\ pc' = "read"
    /\ calls' = <<>>
    /\ schema' = None
    /\ definitions' = <<>>
    /\ scanned' = <<>>
    /\ types' = EmptyMap
    /\ result' = None
    /\ UNCHANGED file
    /\ UNCHANGED <<resolver_vars, object_vars>>

-----------------------------------------------------------------------------
(* The specifications.                                                     *)

Init == PipelineInit /\ ResolverIdle /\ ObjectIdle

Next ==
    \/ ReadSchema
    \/ ParseSchema
    \/ ScanDefinition
    \/ ReturnSchemaData
    \/ EmitObjects
    \/ RunAgain

Spec == Init /\ [][Next]_vars

InitResolver == ResolverInit /\ ObjectIdle /\ PipelineIdle
NextResolver == Resolve
SpecResolver == InitResolver /\ [][NextResolver]_vars

InitObject == ObjectInit /\ ResolverIdle /\ PipelineIdle
NextObject == EmitObject
SpecObject == InitObject /\ [][NextObject]_vars

-----------------------------------------------------------------------------
(* Vocabulary of the properties.                                           *)

BuiltinScalarNames == {"String", "Int", "Float", "Boolean"}

\* The name at the bottom of a type reference.
RECURSIVE LeafName(_)
LeafName(t) == IF t.tag = "NamedType" THEN t.name ELSE LeafName(t.inner)

\* The wrappers of a type reference, outermost first.
RECURSIVE Wrappers(_)
Wrappers(t) ==
    IF t.tag = "NamedType" THEN <<>> ELSE <<t.tag>> \o Wrappers(t.inner)

TypeConstructor(wrapper) == IF wrapper = "NonNullType" THEN "Option" ELSE "Vec"
SelectorAdapter(wrapper) ==
    IF wrapper = "NonNullType"
    THEN "::cynic::selection_set::option"
    ELSE "::cynic::selection_set::vec"

\* The result and the lock of a SelectionSet type: its last two arguments.
LockOf(selection_set) == selection_set.args[Len(selection_set.args)]
ResultOf(selection_set) == selection_set.args[Len(selection_set.args) - 1]

\* The last object type definition named n in a sequence of definitions.
ObjectPositions(defs, n) ==
    {i \in DOMAIN defs : defs[i].kind = "Object" /\ defs[i].name = n}
LastObjectNamed(defs, n) ==
    defs[CHOOSE i \in ObjectPositions(defs, n) :
             \A j \in ObjectPositions(defs, n) : j <= i]
ObjectNames(defs) == {defs[i].name : i \in {j \in DOMAIN defs : defs[j].kind = "Object"}}

\* The wire names of a sequence of fields, and of a sequence of accessors.
FieldNamesOf(fields) == [i \in DOMAIN fields |-> fields[i].name]
WireNamesOf(functions) == [i \in DOMAIN functions |-> functions[i].wire]

-----------------------------------------------------------------------------
(* C1, under SpecResolver.                                                 *)

\* C1: field_type_and_scalar_call returns a selector exactly when the leaf
\* name of the type reference, under any nesting of NonNull and List, is one
\* of String, Int, Float, Boolean, compared case-sensitively; ID, the lower
\* case spellings and every object or unknown name get no selector.
C1_ScalarObjectPartition ==
    IsSome(resolved) =>
        (IsSome(Unwrap(resolved)[2]) <=> LeafName(gql_type) \in BuiltinScalarNames)

\* An ID under three wrappers has been resolved, to no selector.
C1_Witness ==
    /\ gql_type = NonNullType(ListType(NonNullType(NamedType("ID"))))
    /\ IsSome(resolved)
    /\ Unwrap(resolved)[2] = None

-----------------------------------------------------------------------------
(* C2, under SpecResolver.                                                 *)

\* C2: the generated type mirrors the wrappers one for one and in order
\* (NonNull gives Option<...>, List gives Vec<...>, nothing else adds an
\* Option) around the leaf's type, and for a scalar leaf the selector is the
\* leaf selector inside option(...) / vec(...) adapters in the same order;
\* NonNull(List(Named("Int"))) gives Option<Vec<i64>> and
\* option(vec(integer())).
C2_WrapperComposition ==
    IsSome(resolved) =>
        LET w    == Wrappers(gql_type)
            n    == Len(w)
            T    == Unwrap(resolved)[1]
            S    == Unwrap(resolved)[2]
            leaf == NamedTypeArm(LeafName(gql_type))
        IN  /\ Len(T) = 3 * n + 1
            /\ \A i \in 1..n :
                  /\ T[2 * i - 1] = TypeConstructor(w[i])
                  /\ T[2 * i] = "<"
                  /\ T[2 * n + 1 + i] = ">"
            /\ T[2 * n + 1] = leaf[1]
            /\ IsSome(leaf[2]) =>
                  /\ IsSome(S)
                  /\ Len(Unwrap(S)) = 3 * n + 3
                  /\ \A i \in 1..n :
                        /\ Unwrap(S)[2 * i - 1] = SelectorAdapter(w[i])
                        /\ Unwrap(S)[2 * i] = "("
                        /\ Unwrap(S)[2 * n + 3 + i] = ")"
                  /\ SubSeq(Unwrap(S), 2 * n + 1, 2 * n + 3)
                        = <<Unwrap(leaf[2]), "(", ")">>
            /\ gql_type = NonNullType(ListType(NamedType("Int"))) =>
                  /\ T = <<"Option", "<", "Vec", "<", "i64", ">", ">">>
                  /\ S = Some(<<"::cynic::selection_set::option", "(",
                                "::cynic::selection_set::vec", "(",
                                "integer", "(", ")", ")", ")">>)

\* Three wrappers around Float have been resolved, to Vec<Option<Vec<f64>>>
\* and vec(option(vec(float()))).
C2_Witness ==
    /\ gql_type = ListType(NonNullType(ListType(NamedType("Float"))))
    /\ resolved = Some(<< <<"Vec", "<", "Option", "<", "Vec", "<", "f64",
                            ">", ">", ">">>,
                          Some(<<"::cynic::selection_set::vec", "(",
                                 "::cynic::selection_set::option", "(",
                                 "::cynic::selection_set::vec", "(",
                                 "float", "(", ")", ")", ")", ")">>) >>)

-----------------------------------------------------------------------------
(* C4, C5 and C10, under SpecObject.                                       *)

Chars_post_id == <<"p", "o", "s", "t", "_", "i", "d">>

\* C4: every object-branch accessor of type T, for a field whose leaf name
\* is N under any wrappers, takes exactly one argument, a selection set of
\* some R locked to the marker N, and returns a selection set of the same R
\* locked to T.
C4_NestedTypeLock ==
    IsSome(unit) =>
        \A i \in DOMAIN object.fields :
            LET field    == object.fields[i]
                accessor == Unwrap(unit).functions[i]
            IN  LeafName(field.field_type) \notin BuiltinScalarNames =>
                    /\ Len(accessor.params) = 1
                    /\ LockOf(accessor.params[1].type)
                          = <<LeafName(field.field_type)>>
                    /\ LockOf(accessor.returns) = <<object.name>>
                    /\ ResultOf(accessor.returns)
                          = ResultOf(accessor.params[1].type)

\* C5: dsl_for_object emits exactly one accessor per field, and the wire
\* names of the accessors, in the order emitted, are the field names in the
\* order declared: nothing dropped, duplicated or reordered.
C5_FieldOrderPreserved ==
    IsSome(unit) =>
        /\ Unwrap(unit).struct_name = object.name
        /\ WireNamesOf(Unwrap(unit).functions) = FieldNamesOf(object.fields)

\* Two fields of different names have been emitted, in declaration order.
C5_Witness ==
    /\ IsSome(unit)
    /\ FieldNamesOf(object.fields) = <<Chars_someField, Chars_author>>
    /\ WireNamesOf(Unwrap(unit).functions) = <<Chars_someField, Chars_author>>

\* C10: in the scalar and in the object branch alike, the string literal of
\* the accessor is the schema's field name as written, and only the
\* accessor's identifier is its snake_case conversion: someField is named
\* some_field and keeps the literal "someField".
C10_WireNamePreserved ==
    IsSome(unit) =>
        \A i \in DOMAIN object.fields :
            LET field    == object.fields[i]
                accessor == Unwrap(unit).functions[i]
            IN  /\ accessor.wire = field.name
                /\ accessor.name = to_snake_case(field.name)
                /\ field.name = Chars_someField =>
                      accessor.name = Chars_some_field
                /\ field.name = Chars_postID =>
                      accessor.name = Chars_post_id
                /\ field.name \in {Chars_some_field, Chars_author} =>
                      accessor.name = field.name

\* A scalar accessor and an object accessor have been emitted whose
\* identifiers differ from their wire names.
C10_Witness ==
    /\ IsSome(unit)
    /\ object.fields = <<Field(Chars_someField, NamedType("Int")),
                         Field(Chars_postID, ListType(NamedType("Author")))>>
    /\ Unwrap(unit).functions[1].params = <<>>
    /\ Unwrap(unit).functions[1].name = Chars_some_field
    /\ Unwrap(unit).functions[1].wire = Chars_someField
    /\ Len(Unwrap(unit).functions[2].params) = 1
    /\ Unwrap(unit).functions[2].name = Chars_post_id
    /\ Unwrap(unit).functions[2].wire = Chars_postID

-----------------------------------------------------------------------------
(* C3, C6, C7, C8 and C9, under Spec.                                      *)

Finished == pc = "done" /\ IsSome(result)
Succeeded == Finished /\ Unwrap(result).tag = "Ok"
Output == Unwrap(result).value
Document == file.text.document

\* C3: two runs on the same schema give the same output, the order of the
\* per-type units included.
C3_Determinism ==
    (run = 2 /\ Finished) => result = first_result

\* C6: for each name the index holds the object type defined last under it
\* among the definitions scanned; the output has one marker for the name,
\* with that definition's fields and no others.
C6_LastDefinitionWins ==
    /\ \A n \in Keys(types) :
          types[n] = [name |-> n, fields |-> LastObjectNamed(scanned, n).fields]
    /\ Succeeded =>
          \A n \in ObjectNames(Document) :
              /\ Cardinality({i \in DOMAIN Output : Output[i].struct_name = n}) = 1
              /\ \A i \in DOMAIN Output :
                    Output[i].struct_name = n =>
                        WireNamesOf(Output[i].functions)
                            = FieldNamesOf(LastObjectNamed(Document, n).fields)

\* Post was defined with the field title and then with the field author;
\* the output is one Post unit, with the accessor author alone.
C6_Witness ==
    /\ Succeeded
    /\ Document = << [kind |-> "Object", name |-> "Post",
                      fields |-> <<Field(Chars_title, NamedType("String"))>>],
                     [kind |-> "Object", name |-> "Post",
                      fields |-> <<Field(Chars_author, NamedType("Author"))>>] >>
    /\ Len(Output) = 1
    /\ Output[1].struct_name = "Post"
    /\ WireNamesOf(Output[1].functions) = <<Chars_author>>

C8_ObjectTypesOnlyIndex ==
    /\ Keys(types) = ObjectNames(scanned)
    /\ \A n \in Keys(types) :
          \E i \in ObjectPositions(scanned, n) :
              types[n] = [name |-> n, fields |-> scanned[i].fields]
    /\ (Finished /\ file.io_error = None /\ file.text.parse_error = None) =>
          /\ Succeeded
          /\ Len(Output) = Cardinality(ObjectNames(Document))
          /\ {Output[i].struct_name : i \in DOMAIN Output} = ObjectNames(Document)

\* A scalar named Author and an object type Post have been scanned, and
\* the output is the Post unit alone.
C8_Witness ==
    /\ Succeeded
    /\ Len(Document) = 2
    /\ Document[1] = [kind |-> "Scalar", name |-> "Author", fields |-> <<>>]
    /\ Document[2].kind = "Object" /\ Document[2].name = "Post"
    /\ Keys(types) = {"Post"}
    /\ Len(Output) = 1 /\ Output[1].struct_name = "Post"

\* C9: a field whose named type is neither a built-in scalar nor a key of
\* the index resolves to no selector and to the name itself as generated
\* type; the run still ends in Ok, and the output holds the field's
\* object-branch accessor, locked to that name.
C9_UnknownNamedType ==
    (Finished /\ file.io_error = None /\ file.text.parse_error = None) =>
        /\ Succeeded
        /\ \A u \in DOMAIN Output :
              LET fields == LastObjectNamed(Document, Output[u].struct_name).fields
              IN  /\ Len(Output[u].functions) = Len(fields)
                  /\ \A i \in DOMAIN fields :
                        LET n == fields[i].field_type.name
                            accessor == Output[u].functions[i]
                        IN  (/\ fields[i].field_type.tag = "NamedType"
                             /\ n \notin BuiltinScalarNames
                             /\ n \notin Keys(types)) =>
                                /\ field_type_and_scalar_call(fields[i].field_type)
                                      = << <<n>>, None >>
                                /\ accessor.wire = fields[i].name
                                /\ Len(accessor.params) = 1
                                /\ LockOf(accessor.params[1].type) = <<n>>
                                /\ accessor.selection = <<"fields">>

\* Post has a field of type MyCustomType, which nothing defines, and the
\* run has ended in Ok with that field's accessor.
C9_Witness ==
    /\ Succeeded
    /\ Document = << [kind |-> "Object", name |-> "Post",
                      fields |-> <<Field(Chars_custom, NamedType("MyCustomType"))>>] >>
    /\ Keys(types) = {"Post"}
    /\ Len(Output) = 1
    /\ Output[1].functions[1].wire = Chars_custom
    /\ LockOf(Output[1].functions[1].params[1].type) = <<"MyCustomType">>

=============================================================================
